---- MODULE Spec2Model ----
(***************************************************************************)
(* Model of the Bellande format parser and serializer                      *)
(* (Package/Rust/src/bellande_parser.rs).                                  *)
(*                                                                         *)
(* Text is a sequence of one-character strings.  A BellandeValue is a      *)
(* record tagged by its variant; a Map payload is a function from keys     *)
(* (texts) to values, which like HashMap has no order of its own.          *)
(***************************************************************************)
EXTENDS Integers, Sequences, FiniteSets, TLC

(***************************************************************************)
(* Bounds of the model.                                                    *)
(***************************************************************************)
MaxLines == 3
MaxIndent == 2
MaxTokLen == 2
MaxTrail == 1
MaxNodes == 5

(***************************************************************************)
(* str helpers of the Rust standard library, as used by the parser.        *)
(***************************************************************************)
Whitespace == {" ", "\t"}

RECURSIVE trim_start(_)
trim_start(s) ==
  IF s # <<>> /\ Head(s) \in Whitespace THEN trim_start(Tail(s)) ELSE s

RECURSIVE trim_end(_)
trim_end(s) ==
  IF s # <<>> /\ s[Len(s)] \in Whitespace
  THEN trim_end(SubSeq(s, 1, Len(s) - 1))
  ELSE s

trim(s) == trim_end(trim_start(s))

starts_with(s, c) == s # <<>> /\ Head(s) = c

ends_with(s, c) == s # <<>> /\ s[Len(s)] = c

contains(s, c) == \E i \in 1..Len(s) : s[i] = c

\* str::find: 0-based position of the first occurrence, -1 for None.
find(s, c) ==
  IF contains(s, c)
  THEN (CHOOSE i \in 1..Len(s) : s[i] = c /\ \A j \in 1..(i - 1) : s[j] # c) - 1
  ELSE -1

UpperLetters ==
  <<"A", "B", "C", "D", "E", "F", "G", "H", "I", "J", "K", "L", "M",
    "N", "O", "P", "Q", "R", "S", "T", "U", "V", "W", "X", "Y", "Z">>

LowerLetters ==
  <<"a", "b", "c", "d", "e", "f", "g", "h", "i", "j", "k", "l", "m",
    "n", "o", "p", "q", "r", "s", "t", "u", "v", "w", "x", "y", "z">>

to_ascii_lowercase(c) ==
  IF \E i \in 1..26 : UpperLetters[i] = c
  THEN LowerLetters[CHOOSE i \in 1..26 : UpperLetters[i] = c]
  ELSE c

to_lowercase(s) == [i \in 1..Len(s) |-> to_ascii_lowercase(s[i])]

eq_ignore_ascii_case(s, t) == to_lowercase(s) = to_lowercase(t)

Digits == <<"0", "1", "2", "3", "4", "5", "6", "7", "8", "9">>

IsDigit(c) == \E i \in 1..10 : Digits[i] = c

DigitVal(c) == (CHOOSE i \in 1..10 : Digits[i] = c) - 1

AllDigits(s) == \A i \in 1..Len(s) : IsDigit(s[i])

RECURSIVE DigitsVal(_)
DigitsVal(s) ==
  IF s = <<>> THEN 0
  ELSE DigitsVal(SubSeq(s, 1, Len(s) - 1)) * 10 + DigitVal(s[Len(s)])

RECURSIVE NatToStr(_)
NatToStr(n) ==
  IF n < 10 THEN <<Digits[n + 1]>>
  ELSE NatToStr(n \div 10) \o <<Digits[(n % 10) + 1]>>

RECURSIVE StripZeros(_)
StripZeros(s) ==
  IF Len(s) > 1 /\ Head(s) = "0" THEN StripZeros(Tail(s)) ELSE s

\* Comparison of two digit strings without leading zeros, as numbers.
DigitsLE(a, b) ==
  \/ Len(a) < Len(b)
  \/ /\ Len(a) = Len(b)
     /\ \/ a = b
        \/ \E i \in 1..Len(a) :
             /\ DigitVal(a[i]) < DigitVal(b[i])
             /\ \A j \in 1..(i - 1) : a[j] = b[j]

I64MaxDigits ==
  <<"9", "2", "2", "3", "3", "7", "2", "0", "3", "6", "8", "5", "4", "7",
    "7", "5", "8", "0", "7">>

I64MinDigits ==
  <<"9", "2", "2", "3", "3", "7", "2", "0", "3", "6", "8", "5", "4", "7",
    "7", "5", "8", "0", "8">>

StripSign(s) == IF starts_with(s, "-") \/ starts_with(s, "+") THEN Tail(s) ELSE s

SignedVal(neg, n) == IF neg THEN 0 - n ELSE n

I64Fits(neg, body) ==
  /\ body # <<>>
  /\ AllDigits(body)
  /\ DigitsLE(StripZeros(body), IF neg THEN I64MinDigits ELSE I64MaxDigits)

\* str::parse::<i64>: an optional sign, then one or more digits, and the
\* number must fit 64 bits.  The value is computed as an integer of the
\* model; the texts of the model have few digits.
parse_i64(s) ==
  IF I64Fits(starts_with(s, "-"), StripSign(s))
  THEN [ok |-> TRUE, v |-> SignedVal(starts_with(s, "-"), DigitsVal(StripSign(s)))]
  ELSE [ok |-> FALSE, v |-> 0]

(***************************************************************************)
(* f64.  A float is its sign, its kind, and for a finite number the        *)
(* decimal m * 10^e with m not a multiple of ten (m = 0 has e = 0); for    *)
(* the short decimals of the model this is the number parse::<f64> reads   *)
(* and the shortest decimal that to_string prints.                         *)
(***************************************************************************)
RECURSIVE NormFloat(_, _, _)
NormFloat(neg, m, e) ==
  IF m = 0 THEN [neg |-> neg, kind |-> "finite", m |-> 0, e |-> 0]
  ELSE IF m % 10 = 0 THEN NormFloat(neg, m \div 10, e + 1)
  ELSE [neg |-> neg, kind |-> "finite", m |-> m, e |-> e]

F64Err == [ok |-> FALSE, v |-> [neg |-> FALSE, kind |-> "nan", m |-> 0, e |-> 0]]

\* Number ::= ( Digit+ | Digit+ '.' Digit* | Digit* '.' Digit+ ), times
\* ten to the power ev.
F64Parts(neg, ipart, fpart, ev) ==
  IF AllDigits(ipart) /\ AllDigits(fpart) /\ Len(ipart) + Len(fpart) > 0
  THEN [ok |-> TRUE, v |-> NormFloat(neg, DigitsVal(ipart \o fpart), ev - Len(fpart))]
  ELSE F64Err

F64Mantissa(neg, mant, dpos, ev) ==
  IF dpos >= 0
  THEN F64Parts(neg, SubSeq(mant, 1, dpos), SubSeq(mant, dpos + 2, Len(mant)), ev)
  ELSE F64Parts(neg, mant, <<>>, ev)

\* Exp ::= 'e' Sign? Digit+
F64Exp(neg, mant, exp) ==
  IF StripSign(exp) # <<>> /\ AllDigits(StripSign(exp))
  THEN F64Mantissa(neg, mant, find(mant, "."),
                   SignedVal(starts_with(exp, "-"), DigitsVal(StripSign(exp))))
  ELSE F64Err

F64Number(neg, body, epos) ==
  IF epos >= 0
  THEN F64Exp(neg, SubSeq(body, 1, epos), SubSeq(body, epos + 2, Len(body)))
  ELSE F64Mantissa(neg, body, find(body, "."), 0)

\* Float ::= Sign? ( 'inf' | 'infinity' | 'nan' | Number ), on the
\* lowercased text.
F64Body(neg, body) ==
  IF body = <<"i", "n", "f">> \/ body = <<"i", "n", "f", "i", "n", "i", "t", "y">>
  THEN [ok |-> TRUE, v |-> [neg |-> neg, kind |-> "inf", m |-> 0, e |-> 0]]
  ELSE IF body = <<"n", "a", "n">>
  THEN [ok |-> TRUE, v |-> [neg |-> FALSE, kind |-> "nan", m |-> 0, e |-> 0]]
  ELSE F64Number(neg, body, find(body, "e"))

\* str::parse::<f64>, by the grammar of f64::from_str.
parse_f64(s) == F64Body(starts_with(s, "-"), StripSign(to_lowercase(s)))

Zeros(n) == [i \in 1..n |-> "0"]

F64Digits(sign, d, n, k) ==
  IF k <= 0 THEN sign \o d \o Zeros(0 - k)
  ELSE IF n > k THEN sign \o SubSeq(d, 1, n - k) \o <<".">> \o SubSeq(d, n - k + 1, n)
  ELSE sign \o <<"0", ".">> \o Zeros(k - n) \o d

\* f64::to_string (Display): never an exponent, no ".0" on a whole number.
f64_to_string(f) ==
  IF f.kind = "nan" THEN <<"N", "a", "N">>
  ELSE IF f.kind = "inf" THEN (IF f.neg THEN <<"-">> ELSE <<>>) \o <<"i", "n", "f">>
  ELSE F64Digits(IF f.neg THEN <<"-">> ELSE <<>>, NatToStr(f.m), Len(NatToStr(f.m)), 0 - f.e)

i64_to_string(i) == IF i < 0 THEN <<"-">> \o NatToStr(0 - i) ELSE NatToStr(i)

(***************************************************************************)
(* BellandeValue                                                           *)
(***************************************************************************)
VString(s) == [t |-> "String", s |-> s]
VInteger(i) == [t |-> "Integer", i |-> i]
VFloat(f) == [t |-> "Float", f |-> f]
VBoolean(b) == [t |-> "Boolean", b |-> b]
VNull == [t |-> "Null"]
VList(l) == [t |-> "List", l |-> l]
VMap(m) == [t |-> "Map", m |-> m]

EmptyMap == [k \in {} |-> VNull]

\* The outcome of a call that panics (a slice out of range, unwrap of None,
\* unreachable!()).
Panic == [t |-> "Panic"]

IsScalar(v) == v.t \in {"String", "Integer", "Float", "Boolean", "Null"}

(***************************************************************************)
(* parse_value: the scalar lexer.  The slice value[1..value.len() - 1] of  *)
(* the quoted branch panics when the text is the one character '"'.        *)
(***************************************************************************)
\* The last three rules of parse_value: integer, float, String.
parse_number(value, int, float) ==
  IF int.ok THEN VInteger(int.v)
  ELSE IF float.ok THEN VFloat(float.v)
  ELSE VString(value)

\* The same with the float rule tried before the integer rule.
parse_number_float_first(value, int, float) ==
  IF float.ok THEN VFloat(float.v)
  ELSE IF int.ok THEN VInteger(int.v)
  ELSE VString(value)

parse_value_float_first(value) ==
  IF eq_ignore_ascii_case(value, <<"t", "r", "u", "e">>) THEN VBoolean(TRUE)
  ELSE IF eq_ignore_ascii_case(value, <<"f", "a", "l", "s", "e">>) THEN VBoolean(FALSE)
  ELSE IF eq_ignore_ascii_case(value, <<"n", "u", "l", "l">>) THEN VNull
  ELSE IF starts_with(value, "\"") /\ ends_with(value, "\"")
  THEN IF 1 <= Len(value) - 1 THEN VString(SubSeq(value, 2, Len(value) - 1)) ELSE Panic
  ELSE parse_number_float_first(value, parse_i64(value), parse_f64(value))

parse_value(value) ==
  IF eq_ignore_ascii_case(value, <<"t", "r", "u", "e">>) THEN VBoolean(TRUE)
  ELSE IF eq_ignore_ascii_case(value, <<"f", "a", "l", "s", "e">>) THEN VBoolean(FALSE)
  ELSE IF eq_ignore_ascii_case(value, <<"n", "u", "l", "l">>) THEN VNull
  ELSE IF starts_with(value, "\"") /\ ends_with(value, "\"")
  THEN IF 1 <= Len(value) - 1 THEN VString(SubSeq(value, 2, Len(value) - 1)) ELSE Panic
  ELSE parse_number(value, parse_i64(value), parse_f64(value))

(***************************************************************************)
(* format_value: the text of a scalar.                                     *)
(***************************************************************************)
Unreachable == <<"unreachable!()">>

\* format_value without the test for a colon in a String.
format_value_no_colon(value) ==
  CASE value.t = "String" ->
         IF \/ contains(value.s, " ")
            \/ to_lowercase(value.s) \in
                 {<<"t", "r", "u", "e">>, <<"f", "a", "l", "s", "e">>, <<"n", "u", "l", "l">>}
         THEN <<"\"">> \o value.s \o <<"\"">>
         ELSE value.s
    [] value.t = "Integer" -> i64_to_string(value.i)
    [] value.t = "Float" -> f64_to_string(value.f)
    [] value.t = "Boolean" ->
         IF value.b THEN <<"t", "r", "u", "e">> ELSE <<"f", "a", "l", "s", "e">>
    [] value.t = "Null" -> <<"n", "u", "l", "l">>
    [] OTHER -> Unreachable

format_value(value) ==
  CASE value.t = "String" ->
         IF \/ contains(value.s, " ")
            \/ contains(value.s, ":")
            \/ to_lowercase(value.s) \in
                 {<<"t", "r", "u", "e">>, <<"f", "a", "l", "s", "e">>, <<"n", "u", "l", "l">>}
         THEN <<"\"">> \o value.s \o <<"\"">>
         ELSE value.s
    [] value.t = "Integer" -> i64_to_string(value.i)
    [] value.t = "Float" -> f64_to_string(value.f)
    [] value.t = "Boolean" ->
         IF value.b THEN <<"t", "r", "u", "e">> ELSE <<"f", "a", "l", "s", "e">>
    [] value.t = "Null" -> <<"n", "u", "l", "l">>
    [] OTHER -> Unreachable

(***************************************************************************)
(* insert_value and append_to_list.  Both walk the stack, skipping its     *)
(* first entry: while the current value is a Map the walk descends into    *)
(* the entry's key (unwrap panics when the key is absent); once the        *)
(* current value is not a Map the remaining entries leave it in place.     *)
(***************************************************************************)
\* PathKeys without skip(1): the key of the first entry is walked too.
PathKeys_no_skip(stack) == [i \in 1..Len(stack) |-> stack[i].key]

PathKeys(stack) == [i \in 1..(Len(stack) - 1) |-> stack[i + 1].key]

\* The keys the walk descends through, or the panic of unwrap.
RECURSIVE navigate(_, _)
navigate(current, keys) ==
  IF keys = <<>> THEN [ok |-> TRUE, path |-> <<>>]
  ELSE IF current.t = "Map"
  THEN IF Head(keys) \in DOMAIN current.m
       THEN LET rest == navigate(current.m[Head(keys)], Tail(keys))
            IN  [ok |-> rest.ok, path |-> <<Head(keys)>> \o rest.path]
       ELSE [ok |-> FALSE, path |-> <<>>]
  ELSE navigate(current, Tail(keys))

RECURSIVE ValueAt(_, _)
ValueAt(v, path) == IF path = <<>> THEN v ELSE ValueAt(v.m[Head(path)], Tail(path))

RECURSIVE UpdateAt(_, _, _)
UpdateAt(v, path, new) ==
  IF path = <<>> THEN new
  ELSE VMap([v.m EXCEPT ![Head(path)] = UpdateAt(v.m[Head(path)], Tail(path), new)])

MapInsert(m, key, value) ==
  [k \in (DOMAIN m) \cup {key} |-> IF k = key THEN value ELSE m[k]]

\* InsertAt with the value written in place of the Map the walk ended at.
InsertAt_replace(root, nav, current, key, value) ==
  IF ~nav.ok THEN Panic
  ELSE IF current.t = "Map"
  THEN UpdateAt(root, nav.path, value)
  ELSE root

\* The end of insert_value, with the walk nav done and current the value
\* it ended at.
InsertAt(root, nav, current, key, value) ==
  IF ~nav.ok THEN Panic
  ELSE IF current.t = "Map"
  THEN UpdateAt(root, nav.path, VMap(MapInsert(current.m, key, value)))
  ELSE root

InsertVia(root, nav, key, value) ==
  InsertAt(root, nav, IF nav.ok THEN ValueAt(root, nav.path) ELSE Panic, key, value)

insert_value(root, stack, key, value) ==
  InsertVia(root, navigate(root, PathKeys(stack)), key, value)

\* The end of append_to_list, likewise.
AppendAt(root, nav, current, key, value) ==
  IF ~nav.ok THEN Panic
  ELSE IF current.t = "Map" /\ key \in DOMAIN current.m /\ current.m[key].t = "List"
  THEN UpdateAt(root, nav.path,
         VMap([current.m EXCEPT ![key] = VList(Append(current.m[key].l, value))]))
  ELSE root

AppendVia(root, nav, key, value) ==
  AppendAt(root, nav, IF nav.ok THEN ValueAt(root, nav.path) ELSE Panic, key, value)

append_to_list(root, stack, key, value) ==
  AppendVia(root, navigate(root, PathKeys(stack)), key, value)

(***************************************************************************)
(* parse_lines: one iteration of the loop over the lines.                  *)
(***************************************************************************)
RootEntry == [indent |-> 0, key |-> <<>>]

\* while let Some(&(last_indent, _)) = stack.last(): pops every entry
\* whose indent is at least the line's, the first entry included.
RECURSIVE Dedent(_, _)
Dedent(stack, indent) ==
  IF stack # <<>> /\ indent <= stack[Len(stack)].indent
  THEN Dedent(SubSeq(stack, 1, Len(stack) - 1), indent)
  ELSE stack

IsSkipped(ln) == trim(ln) = <<>> \/ starts_with(trim(ln), "#")

LineIndent(ln) == Len(ln) - Len(trim(ln))

IsKeyLine(ln) == ~IsSkipped(ln) /\ find(trim(ln), ":") >= 0

IsItemLine(ln) == ~IsSkipped(ln) /\ find(trim(ln), ":") < 0 /\ starts_with(trim(ln), "-")

IsOtherLine(ln) == ~IsSkipped(ln) /\ ~IsKeyLine(ln) /\ ~IsItemLine(ln)

LineKey(ln) == trim(SubSeq(trim(ln), 1, find(trim(ln), ":")))

LineValue(ln) == trim(SubSeq(trim(ln), find(trim(ln), ":") + 2, Len(trim(ln))))

ItemValue(ln) == trim(Tail(trim(ln)))

\* The state after a write that gave root1: a panic keeps the tree, and
\* otherwise the stack becomes stack2.
Written(st, root1, stack1, stack2) ==
  IF root1 = Panic THEN [root |-> st.root, stack |-> stack1, ok |-> FALSE]
  ELSE [root |-> root1, stack |-> stack2, ok |-> TRUE]

\* A key line with a value: the value is lexed, then inserted.
ScalarStep(st, stack1, key, parsed_value) ==
  IF parsed_value = Panic THEN [root |-> st.root, stack |-> stack1, ok |-> FALSE]
  ELSE Written(st, insert_value(st.root, stack1, key, parsed_value), stack1, stack1)

\* KeyLineStep with an empty Map, not an empty List, inserted for a key
\* line without a value.
KeyLineStep_map_placeholder(st, stack1, indent, key, value) ==
  IF value # <<>> THEN ScalarStep(st, stack1, key, parse_value(value))
  ELSE Written(st, insert_value(st.root, stack1, key, VMap(EmptyMap)), stack1,
               Append(stack1, [indent |-> indent, key |-> key]))

\* A key line: with a value, or with none, which inserts an empty List and
\* pushes the key.
KeyLineStep(st, stack1, indent, key, value) ==
  IF value # <<>> THEN ScalarStep(st, stack1, key, parse_value(value))
  ELSE Written(st, insert_value(st.root, stack1, key, VList(<<>>)), stack1,
               Append(stack1, [indent |-> indent, key |-> key]))

\* An item line: the value is lexed, then appended under the key of the
\* top of the stack, if the stack has one.
ItemLineStep(st, stack1, parsed_value) ==
  IF parsed_value = Panic THEN [root |-> st.root, stack |-> stack1, ok |-> FALSE]
  ELSE IF stack1 = <<>> THEN [root |-> st.root, stack |-> stack1, ok |-> TRUE]
  ELSE Written(st, append_to_list(st.root, stack1, stack1[Len(stack1)].key, parsed_value),
               stack1, stack1)

\* LineStep with the test for a leading dash before the test for a colon.
LineStep_dash_first(st, ln, stack1) ==
  IF starts_with(trim(ln), "-")
  THEN ItemLineStep(st, stack1, parse_value(ItemValue(ln)))
  ELSE IF find(trim(ln), ":") >= 0
  THEN KeyLineStep(st, stack1, LineIndent(ln), LineKey(ln), LineValue(ln))
  ELSE [root |-> st.root, stack |-> stack1, ok |-> TRUE]

\* The iteration for a line that is not skipped, once the indent is
\* resolved to stack1.
LineStep(st, ln, stack1) ==
  IF find(trim(ln), ":") >= 0
  THEN KeyLineStep(st, stack1, LineIndent(ln), LineKey(ln), LineValue(ln))
  ELSE IF starts_with(trim(ln), "-")
  THEN ItemLineStep(st, stack1, parse_value(ItemValue(ln)))
  ELSE [root |-> st.root, stack |-> stack1, ok |-> TRUE]

\* ParseLine with the indent resolved before the test for a blank or
\* comment line.
ParseLine_dedent_first(st, ln) ==
  IF IsSkipped(ln)
  THEN [root |-> st.root, stack |-> Dedent(st.stack, LineIndent(ln)), ok |-> TRUE]
  ELSE LineStep(st, ln, Dedent(st.stack, LineIndent(ln)))

\* The state after the iteration for line ln, from the state st = [root,
\* stack]; ok is FALSE when the iteration panics.
ParseLine(st, ln) ==
  IF IsSkipped(ln) THEN [root |-> st.root, stack |-> st.stack, ok |-> TRUE]
  ELSE LineStep(st, ln, Dedent(st.stack, LineIndent(ln)))

ParseStart == [root |-> VMap(EmptyMap), stack |-> <<RootEntry>>, ok |-> TRUE]

\* parse_lines over a whole document: the root it returns, or Panic.
RECURSIVE ParseFrom(_, _)
ParseFrom(st, ls) ==
  IF ~st.ok THEN Panic
  ELSE IF ls = <<>> THEN st.root
  ELSE ParseFrom(ParseLine(st, Head(ls)), Tail(ls))

parse_lines(ls) == ParseFrom(ParseStart, ls)

\* str::lines: the text split at line feeds, a carriage return before a
\* line feed dropped, no empty last line after a final line feed.
StripCr(seg) == IF ends_with(seg, "\r") THEN SubSeq(seg, 1, Len(seg) - 1) ELSE seg

RECURSIVE lines(_), LinesAt(_, _)
lines(content) == IF content = <<>> THEN <<>> ELSE LinesAt(content, find(content, "\n"))

LinesAt(content, p) ==
  IF p < 0 THEN <<content>>
  ELSE <<StripCr(SubSeq(content, 1, p))>> \o lines(SubSeq(content, p + 2, Len(content)))

(***************************************************************************)
(* to_bellande_string.  A HashMap is iterated in an order the program does *)
(* not control, so the operator is the set of the texts the call can       *)
(* return, one for each order of the entries of each Map.                  *)
(***************************************************************************)
Spaces(n) == [i \in 1..n |-> " "]

RECURSIVE to_bellande_string(_, _), MapEntries(_, _, _), ListItems(_, _, _)
to_bellande_string(data, indent) ==
  CASE data.t = "Map" -> MapEntries(data.m, DOMAIN data.m, indent)
    [] data.t = "List" -> ListItems(data.l, 1, indent)
    [] OTHER -> {format_value(data)}

\* The entries of the keys ks, in any order, joined by line feeds.
MapEntries(m, ks, indent) ==
  IF ks = {} THEN {<<>>}
  ELSE UNION { { Spaces(indent) \o key \o <<":", " ">> \o value_str
                   \o (IF ks = {key} THEN <<>> ELSE <<"\n">> \o rest) :
                 value_str \in
                   IF m[key].t \in {"Map", "List"}
                   THEN { <<"\n">> \o s : s \in to_bellande_string(m[key], indent + 2) }
                   ELSE { <<" ">> \o format_value(m[key]) },
                 rest \in MapEntries(m, ks \ {key}, indent) } :
               key \in ks }

\* ListItems with each item handed to format_value as it is.
ListItems_format_items(list, i, indent) ==
  IF i > Len(list) THEN {<<>>}
  ELSE { Spaces(indent) \o <<"-", " ">> \o item
           \o (IF i = Len(list) THEN <<>> ELSE <<"\n">> \o rest) :
         item \in {format_value(list[i])},
         rest \in ListItems(list, i + 1, indent) }

\* The items of list from position i on, joined by line feeds.
ListItems(list, i, indent) ==
  IF i > Len(list) THEN {<<>>}
  ELSE { Spaces(indent) \o <<"-", " ">> \o item
           \o (IF i = Len(list) THEN <<>> ELSE <<"\n">> \o rest) :
         item \in to_bellande_string(list[i], indent + 2),
         rest \in ListItems(list, i + 1, indent) }

(***************************************************************************)
(* The inputs of the model.                                                *)
(***************************************************************************)
\* The trimmed contents of the lines a document is drawn from: blank,
\* comment, key lines with and without a value, item lines, a line that is
\* neither, and a key line that begins with a dash.
LineBodies ==
  { <<>>,
    <<"#">>,
    <<"a", ":">>,
    <<"b", ":">>,
    <<"a", ":", " ", "1">>,
    <<"a", ":", " ", "2">>,
    <<"b", ":", " ", "2">>,
    <<"-", " ", "1">>,
    <<"-", " ", "2">>,
    <<"x">>,
    <<"-", "a", ":", " ", "1">> }

Lines == { Spaces(i) \o body : i \in 0..MaxIndent, body \in LineBodies }

\* The tokens handed to the lexer: every trimmed text of at most MaxTokLen
\* characters of TokChars, and the literals of the lexer's rules.
TokChars == {"\"", "1", "0", ".", "-", "a", " ", ":"}

NamedTokens ==
  { <<"t", "r", "u", "e">>, <<"T", "R", "U", "E">>, <<"T", "r", "u", "e">>,
    <<"F", "a", "l", "s", "e">>, <<"n", "u", "l", "l">>, <<"N", "U", "L", "L">>,
    <<"4", "2">>, <<"-", "4", "2">>, <<"+", "4", "2">>,
    <<"\"", "4", "2", "\"">>, <<"\"", "t", "r", "u", "e", "\"">>,
    <<"\"", "T", "r", "u", "e", "\"">>,
    <<"\"", "a", " ", "b", "\"">>,
    <<"1", ".", "5">>, <<"1", "e", "2">>, <<"i", "n", "f">>, <<"N", "a", "N">>,
    <<"t", "h", "r", "e", "e">> }

Tokens ==
  NamedTokens \cup
  { tk \in UNION { [1..n -> TokChars] : n \in 0..MaxTokLen } : trim(tk) = tk }

(***************************************************************************)
(* State.                                                                  *)
(*   pc       where the program is: "parsing" inside the loop of           *)
(*            parse_lines, "returned" after parse_bellande, "written"      *)
(*            after write_bellande, "reparsed" after the written text was  *)
(*            parsed again, "panicked" after a panic; "lex", "lexed",      *)
(*            "formatted", "relexed" for the scalar functions on their own *)
(*   lineNo   the number of lines the loop has consumed                    *)
(*   line     the line of the last iteration                               *)
(*   root, stack   the locals of parse_lines                               *)
(*   result   the Result of parse_bellande                                 *)
(*   content  the text write_bellande wrote                                *)
(*   reparsed the value parsed from content                                *)
(*   tok, val, txt, val2   a token, its value, the value's text, and the   *)
(*            value of that text                                           *)
(***************************************************************************)
VARIABLES pc, lineNo, line, root, stack, result, content, reparsed,
          tok, val, txt, val2

vars == <<pc, lineNo, line, root, stack, result, content, reparsed,
          tok, val, txt, val2>>

parserVars == <<lineNo, line, root, stack, result, content, reparsed>>

lexVars == <<tok, val, txt, val2>>

NoResult == [tag |-> "None"]

Init ==
  /\ pc = "parsing"
  /\ lineNo = 0
  /\ line = <<>>
  /\ root = ParseStart.root
  /\ stack = ParseStart.stack
  /\ result = NoResult
  /\ content = <<>>
  /\ reparsed = VNull
  /\ tok = <<>>
  /\ val = VNull
  /\ txt = <<>>
  /\ val2 = VNull

\* One iteration of the loop of parse_lines, for the line ln, ending in
\* the state st.
ConsumeTo(ln, st) ==
  /\ pc = "parsing"
  /\ lineNo < MaxLines
  /\ lineNo' = lineNo + 1
  /\ line' = ln
  /\ root' = st.root
  /\ stack' = st.stack
  /\ pc' = IF st.ok THEN "parsing" ELSE "panicked"
  /\ UNCHANGED <<result, content, reparsed>>
  /\ UNCHANGED lexVars

Consume(ln) == ConsumeTo(ln, ParseLine([root |-> root, stack |-> stack, ok |-> TRUE], ln))

SkipLine == \E ln \in Lines : IsSkipped(ln) /\ Consume(ln)

KeyLine == \E ln \in Lines : IsKeyLine(ln) /\ Consume(ln)

ItemLine == \E ln \in Lines : IsItemLine(ln) /\ Consume(ln)

OtherLine == \E ln \in Lines : IsOtherLine(ln) /\ Consume(ln)

\* parse_lines returns root and parse_bellande wraps it in Ok.
Return ==
  /\ pc = "parsing"
  /\ pc' = "returned"
  /\ result' = [tag |-> "Ok", value |-> root]
  /\ UNCHANGED <<lineNo, line, root, stack, content, reparsed>>
  /\ UNCHANGED lexVars

\* The text holds the mark of a call that reached unreachable!().
HasUnreachable(text) == \E i \in 1..Len(text) : text[i] = Unreachable[1]

\* write_bellande of the parsed value; it panics when format_value reaches
\* unreachable!().
Write ==
  /\ pc = "returned"
  /\ content' \in to_bellande_string(result.value, 0)
  /\ pc' = IF HasUnreachable(content') THEN "panicked" ELSE "written"
  /\ UNCHANGED <<lineNo, line, root, stack, result, reparsed>>
  /\ UNCHANGED lexVars

\* parse_bellande of the file that write_bellande wrote.
Reparse ==
  /\ pc = "written"
  /\ reparsed' = parse_lines(lines(content))
  /\ pc' = IF reparsed' = Panic THEN "panicked" ELSE "reparsed"
  /\ UNCHANGED <<lineNo, line, root, stack, result, content>>
  /\ UNCHANGED lexVars

Next == SkipLine \/ KeyLine \/ ItemLine \/ OtherLine \/ Return \/ Write \/ Reparse

Spec == Init /\ [][Next]_vars

(***************************************************************************)
(* The scalar functions on their own: a token is lexed, the value is       *)
(* formatted, and the text is lexed again.                                 *)
(***************************************************************************)
InitLex ==
  /\ pc = "lex"
  /\ tok \in Tokens
  /\ val = VNull
  /\ txt = <<>>
  /\ val2 = VNull
  /\ lineNo = 0
  /\ line = <<>>
  /\ root = ParseStart.root
  /\ stack = ParseStart.stack
  /\ result = NoResult
  /\ content = <<>>
  /\ reparsed = VNull

LexToken ==
  /\ pc = "lex"
  /\ val' = parse_value(tok)
  /\ pc' = IF val' = Panic THEN "panicked" ELSE "lexed"
  /\ UNCHANGED <<tok, txt, val2>>
  /\ UNCHANGED parserVars

FormatToken ==
  /\ pc = "lexed"
  /\ txt' = format_value(val)
  /\ pc' = "formatted"
  /\ UNCHANGED <<tok, val, val2>>
  /\ UNCHANGED parserVars

Relex ==
  /\ pc = "formatted"
  /\ val2' = parse_value(txt)
  /\ pc' = IF val2' = Panic THEN "panicked" ELSE "relexed"
  /\ UNCHANGED <<tok, val, txt>>
  /\ UNCHANGED parserVars

NextLex == LexToken \/ FormatToken \/ Relex

SpecLex == InitLex /\ [][NextLex]_vars

(***************************************************************************)
(* The loop of parse_lines over documents whose lines can end in           *)
(* whitespace: line.len() - stripped.len() is taken of the whole line.     *)
(***************************************************************************)
\* The key, item and other lines of Lines, followed by spaces.
TrailLines ==
  { ln \o Spaces(n) : ln \in { l \in Lines : ~IsSkipped(l) }, n \in 1..MaxTrail }

TrailLine == \E ln \in TrailLines : trim_end(ln) # ln /\ Consume(ln)

NextTrail == SkipLine \/ KeyLine \/ ItemLine \/ OtherLine \/ TrailLine \/ Return

SpecTrail == Init /\ [][NextTrail]_vars

(***************************************************************************)
(* write_bellande on its own: it is public, so its data is any value, of   *)
(* any nesting of Maps and Lists, not only a value that parse_bellande     *)
(* returned.                                                               *)
(***************************************************************************)
SerScalars == {VInteger(1), VString(<<"a">>)}

\* The values of exactly n nodes, a node being a scalar, a List or a Map:
\* the scalars and the empty List and Map for one node, and else the Lists
\* of items, the Maps with the key a and the Maps with the keys a and b
\* whose values have n - 1 nodes together.
RECURSIVE TreesOf(_), ItemsOf(_)
TreesOf(n) ==
  IF n = 1 THEN SerScalars \cup {VList(<<>>), VMap(EmptyMap)}
  ELSE { VList(l) : l \in ItemsOf(n - 1) }
       \cup { VMap(MapInsert(EmptyMap, <<"a">>, v)) : v \in TreesOf(n - 1) }
       \cup { VMap(MapInsert(MapInsert(EmptyMap, <<"a">>, l[1]), <<"b">>, l[2])) :
                l \in { items \in ItemsOf(n - 1) : Len(items) = 2 } }

\* The sequences of values that have n nodes together.
ItemsOf(n) ==
  IF n = 0 THEN {<<>>}
  ELSE UNION { { <<v>> \o rest : v \in TreesOf(k), rest \in ItemsOf(n - k) } : k \in 1..n }

Trees == UNION { TreesOf(n) : n \in 1..MaxNodes }

InitSer ==
  /\ pc = "returned"
  /\ result \in { [tag |-> "Ok", value |-> v] : v \in Trees }
  /\ lineNo = 0
  /\ line = <<>>
  /\ root = ParseStart.root
  /\ stack = ParseStart.stack
  /\ content = <<>>
  /\ reparsed = VNull
  /\ tok = <<>>
  /\ val = VNull
  /\ txt = <<>>
  /\ val2 = VNull

NextSer == Write

SpecSer == InitSer /\ [][NextSer]_vars

(***************************************************************************)
(* Properties.                                                             *)
(***************************************************************************)
\* Every Map of a tree: the tree itself when it is a Map, and the Maps
\* inside its values.
RECURSIVE MapsOf(_)
MapsOf(v) ==
  IF v.t = "Map" THEN {v.m} \cup UNION { MapsOf(v.m[k]) : k \in DOMAIN v.m }
  ELSE IF v.t = "List" THEN UNION { MapsOf(v.l[i]) : i \in 1..Len(v.l) }
  ELSE {}

\* A line without trailing whitespace.
NoTrail(ln) == trim_end(ln) = ln

\* The step is an iteration of the loop of parse_lines.
Consumed == pc = "parsing" /\ lineNo' = lineNo + 1

\* C1: value-level round trip.  The value parsed from the text that the
\* serializer wrote for a parsed tree equals that tree.
C1_RoundTrip == pc = "reparsed" => reparsed = result.value

\* C2: each item line appends its lexed scalar to the List of the open key.
\* An item line that follows a key line with an empty value at a smaller
\* indent leaves that key mapped to the List of the one lexed value, and an
\* item line under an open key (the top of the stack once the indent is
\* resolved) appends its lexed value to the List under that key.
C2_ItemsAppend ==
  [][ (Consumed /\ IsItemLine(line') /\ NoTrail(line'))
      => LET item   == parse_value(ItemValue(line'))
             stack1 == Dedent(stack, LineIndent(line'))
             top    == stack1[Len(stack1)]
         IN  /\ (/\ IsKeyLine(line) /\ NoTrail(line) /\ LineValue(line) = <<>>
                 /\ LineIndent(line) < LineIndent(line'))
                => \E m \in MapsOf(root') :
                     /\ LineKey(line) \in DOMAIN m
                     /\ m[LineKey(line)] = VList(<<item>>)
             /\ (stack1 # <<>> /\ top # RootEntry)
                => \E m \in MapsOf(root), m2 \in MapsOf(root') :
                     /\ top.key \in DOMAIN m
                     /\ m[top.key].t = "List"
                     /\ top.key \in DOMAIN m2
                     /\ m2[top.key] = VList(Append(m[top.key].l, item)) ]_vars

\* C3: a key line whose indent is at most the indent of the open key closes
\* that key: its key and value are inserted into the Map that holds the
\* closed key, and an item line changes no value but the List of the open
\* key.
C3_KeyClosesScope ==
  [][ /\ (/\ Consumed /\ IsKeyLine(line') /\ NoTrail(line')
          /\ stack # <<>> /\ stack[Len(stack)] # RootEntry
          /\ LineIndent(line') <= stack[Len(stack)].indent)
         => \E m \in MapsOf(root') :
              /\ stack[Len(stack)].key \in DOMAIN m
              /\ LineKey(line') \in DOMAIN m
              /\ m[LineKey(line')] = IF LineValue(line') = <<>> THEN VList(<<>>)
                                     ELSE parse_value(LineValue(line'))
      /\ (Consumed /\ IsItemLine(line'))
         => LET stack1 == Dedent(stack, LineIndent(line'))
            IN  \A k \in DOMAIN root.m :
                  (stack1 = <<>> \/ k # stack1[Len(stack1)].key)
                  => k \in DOMAIN root'.m /\ root'.m[k] = root.m[k] ]_vars

\* C4: duplicate keys, the last one wins.  When two successive key lines at
\* the same indent assign a value to the same key, the parsed tree holds
\* the value of the second line under that key.
C4_LastWins ==
  [][ (/\ Consumed /\ lineNo >= 1 /\ pc' = "parsing"
       /\ IsKeyLine(line) /\ IsKeyLine(line')
       /\ LineKey(line) = LineKey(line')
       /\ LineValue(line) # <<>> /\ LineValue(line') # <<>>
       /\ LineIndent(line) = LineIndent(line'))
      => \E m \in MapsOf(root') :
           /\ LineKey(line') \in DOMAIN m
           /\ m[LineKey(line')] = parse_value(LineValue(line')) ]_vars

\* C5: the lexer is total.  Lexing never panics, every lexed token has a
\* scalar value, and the one-character token '"' is too short for the
\* quoted rule and becomes the String '"'.
C5_LexerTotal ==
  /\ pc # "panicked"
  /\ pc \in {"lexed", "formatted", "relexed"} => IsScalar(val)
  /\ (pc \in {"lexed", "formatted", "relexed"} /\ tok = <<"\"">>) => val = VString(<<"\"">>)

\* C6 as stated: first match wins in the order true/false, null, quoted,
\* integer, and every other token is a String unchanged.
C6_PrecedenceAsStated ==
  pc \in {"lexed", "formatted", "relexed"} =>
    val = IF to_lowercase(tok) = <<"t", "r", "u", "e">> THEN VBoolean(TRUE)
          ELSE IF to_lowercase(tok) = <<"f", "a", "l", "s", "e">> THEN VBoolean(FALSE)
          ELSE IF to_lowercase(tok) = <<"n", "u", "l", "l">> THEN VNull
          ELSE IF Len(tok) >= 2 /\ tok[1] = "\"" /\ tok[Len(tok)] = "\""
          THEN VString(SubSeq(tok, 2, Len(tok) - 1))
          ELSE IF parse_i64(tok).ok THEN VInteger(parse_i64(tok).v)
          ELSE VString(tok)

\* C6, amended: first match wins in the order true/false, null, quoted
\* (where the one-character token '"' panics), integer, float, and only
\* then String unchanged; TRUE, True and true are Boolean(true), 42 is
\* Integer(42), "42" is String(42) and "true" is String(true).
C6_Precedence ==
  /\ pc # "lex" =>
       val = IF to_lowercase(tok) = <<"t", "r", "u", "e">> THEN VBoolean(TRUE)
             ELSE IF to_lowercase(tok) = <<"f", "a", "l", "s", "e">> THEN VBoolean(FALSE)
             ELSE IF to_lowercase(tok) = <<"n", "u", "l", "l">> THEN VNull
             ELSE IF tok = <<"\"">> THEN Panic
             ELSE IF Len(tok) >= 2 /\ tok[1] = "\"" /\ tok[Len(tok)] = "\""
             THEN VString(SubSeq(tok, 2, Len(tok) - 1))
             ELSE IF parse_i64(tok).ok THEN VInteger(parse_i64(tok).v)
             ELSE IF parse_f64(tok).ok THEN VFloat(parse_f64(tok).v)
             ELSE VString(tok)
  /\ (pc # "lex" /\ tok \in {<<"T", "R", "U", "E">>, <<"T", "r", "u", "e">>,
                             <<"t", "r", "u", "e">>})
       => val = VBoolean(TRUE)
  /\ (pc # "lex" /\ tok = <<"4", "2">>) => val = VInteger(42)
  /\ (pc # "lex" /\ tok = <<"\"", "4", "2", "\"">>) => val = VString(<<"4", "2">>)
  /\ (pc # "lex" /\ tok = <<"\"", "t", "r", "u", "e", "\"">>)
       => val = VString(<<"t", "r", "u", "e">>)

\* A token that both the integer and the float rule accept has been lexed.
C6_Witness == pc = "lexed" /\ tok = <<"4", "2">> /\ parse_f64(tok).ok /\ val = VInteger(42)

\* C7: lexing is idempotent under the formatter.  The text of a token's
\* value lexes to the same value again.
C7_LexIdempotent == pc = "relexed" => val2 = val

\* C8: comment and blank lines are no-ops.  The iteration for a line that
\* is all whitespace, or whose first character after the whitespace is '#',
\* leaves the tree and the stack as they are, at any indent.
C8_SkippedNoOp ==
  [][ (/\ Consumed
       /\ \/ \A i \in 1..Len(line') : line'[i] \in Whitespace
          \/ \E i \in 1..Len(line') :
               line'[i] = "#" /\ \A j \in 1..(i - 1) : line'[j] \in Whitespace)
      => root' = root /\ stack' = stack /\ pc' = "parsing" ]_vars

\* A comment line has been consumed under an open key whose indent is at
\* least the comment's.
C8_Witness ==
  /\ pc = "parsing"
  /\ lineNo >= 2
  /\ starts_with(trim(line), "#")
  /\ Len(stack) >= 2
  /\ LineIndent(line) <= stack[Len(stack)].indent

\* C9: a line that is neither blank, comment, key line nor item line is an
\* error.  When the last line of the document is such a line, the result
\* is the error MalformedLine with that line's number, not a value.
C9_MalformedLine ==
  (/\ pc = "returned" /\ lineNo >= 1
   /\ trim(line) # <<>>
   /\ Head(trim(line)) \notin {"#", "-"}
   /\ ~contains(line, ":"))
  => result = [tag |-> "Err", kind |-> "MalformedLine", line |-> lineNo]

\* C10: no write is silently dropped.  When the walk for the last line's
\* insert or append ended at a value that is not a Map, or the value under
\* the key of an append is not a List, the result is the error
\* UnresolvedPath.
C10_NoSilentDrop ==
  LET stack1  == IF IsKeyLine(line) /\ LineValue(line) = <<>>
                 THEN SubSeq(stack, 1, Len(stack) - 1)
                 ELSE stack
      current == ValueAt(root, navigate(root, PathKeys(stack1)).path)
      key     == stack1[Len(stack1)].key
  IN  (/\ pc = "returned" /\ lineNo >= 1
       /\ \/ IsKeyLine(line) /\ current.t # "Map"
          \/ /\ IsItemLine(line) /\ stack1 # <<>>
             /\ \/ current.t # "Map"
                \/ key \in DOMAIN current.m /\ current.m[key].t # "List")
      => result.tag = "Err" /\ result.kind = "UnresolvedPath"

\* C11: serialization is deterministic and ordered.  The text written for
\* a tree is the only text the serializer can give for it, and when the
\* two lines of a document each inserted a key of the root, the entry of
\* the key of the first line is written before the entry of the key of
\* the second line.
C11_SerializationOrdered ==
  /\ pc = "written" => \A text \in to_bellande_string(result.value, 0) : text = content
  /\ (/\ pc = "written" /\ lineNo = 2 /\ IsKeyLine(line)
      /\ Cardinality(DOMAIN result.value.m) = 2)
     => \A first \in DOMAIN result.value.m \ {LineKey(line)} :
          SubSeq(content, 1, Len(first) + 1) = first \o <<":">>

\* C12: the root value is always a Map, in every state of the loop of
\* parse_lines and in the value that parse_bellande returns, for the empty
\* document too; the value parsed from a written text is a Map as well.
C12_RootIsMap ==
  /\ root.t = "Map"
  /\ pc \in {"returned", "written", "reparsed"}
     => result.tag = "Ok" /\ result.value.t = "Map"
  /\ pc = "reparsed" => reparsed.t = "Map"

\* A document whose lines inserted into the root has been returned.
C12_Witness ==
  /\ pc = "returned"
  /\ lineNo >= 1
  /\ result.value.t = "Map"
  /\ DOMAIN result.value.m # {}

\* C13: in every state of the parser the scope stack is non-empty and its
\* bottom entry is the root entry (0, ""): resolving the indent of a line
\* has not popped the root entry, also when the line has indent 0.
C13_RootEntryStays ==
  /\ stack # <<>>
  /\ stack[1] = RootEntry

\* The step ends with the tree and the stack of the state st.
LandsIn(st) == root' = st.root /\ stack' = st.stack

\* C14: the indent of a line is the count of its leading whitespace only.
\* The iteration for a key line that ends in whitespace gives the tree and
\* the scope stack that the iteration for the same line without its
\* trailing whitespace gives from the same state, so that every
\* continuation of the document is parsed alike.
C14_TrailingIgnored ==
  [][ (Consumed /\ IsKeyLine(line') /\ ~NoTrail(line'))
      => LandsIn(ParseLine([root |-> root, stack |-> stack, ok |-> TRUE],
                           trim_end(line'))) ]_vars

\* C15: structural navigation never aborts the parse.  No state is the
\* state after a panic, and for the stack of every state and every prefix
\* of it that resolving an indent can leave, each key that the walk of
\* insert_value and append_to_list looks up is present in the Map being
\* descended, so that unwrap does not fail for any next line.
C15_NavigationNeverFails ==
  /\ pc # "panicked"
  /\ \A n \in 0..Len(stack) : navigate(root, PathKeys(SubSeq(stack, 1, n))).ok

\* An item line has been consumed whose walk descended through the key of
\* an open scope.
C15_Witness ==
  /\ pc = "parsing"
  /\ lineNo >= 2
  /\ IsItemLine(line)
  /\ Len(stack) >= 2
  /\ navigate(root, PathKeys(stack)).path # <<>>

\* A scalar, or a List whose elements are all scalars.
ScalarOrFlatList(v) ==
  \/ IsScalar(v)
  \/ v.t = "List" /\ \A i \in 1..Len(v.l) : IsScalar(v.l[i])

\* C16: the shape of every parsed tree.  In every state of the loop, and in
\* the returned value, every value stored in the root Map is a scalar or a
\* List whose elements are all scalars (no Map under a key, no List inside
\* a List), and an iteration puts a List under a key that held none only
\* when its line is the key line of that key with an empty value.
C16_Shape ==
  /\ [](/\ root.t = "Map"
        /\ \A k \in DOMAIN root.m : ScalarOrFlatList(root.m[k])
        /\ pc \in {"returned", "written", "reparsed"}
           => /\ result.value.t = "Map"
              /\ \A k \in DOMAIN result.value.m : ScalarOrFlatList(result.value.m[k]))
  /\ [][ Consumed
         => \A k \in DOMAIN root'.m :
              (/\ root'.m[k].t = "List"
               /\ (k \notin DOMAIN root.m \/ root.m[k].t # "List"))
              => /\ find(trim(line'), ":") >= 0
                 /\ LineKey(line') = k
                 /\ LineValue(line') = <<>> ]_vars

\* A tree with a List of at least one item and with a scalar has been
\* returned.
C16_Witness ==
  /\ pc = "returned"
  /\ \E k \in DOMAIN result.value.m :
       result.value.m[k].t = "List" /\ Len(result.value.m[k].l) >= 1
  /\ \E k \in DOMAIN result.value.m : IsScalar(result.value.m[k])

\* The text s, compared without regard to case, is the lowercase word w.
IsWord(s, w) ==
  /\ Len(s) = Len(w)
  /\ \A i \in 1..Len(w) : to_lowercase(<<s[i]>>) = <<w[i]>>

\* C17: scalar formatting.  The text of a String is the String between
\* double quotes exactly when it contains a space or a colon or is, without
\* regard to case, one of true, false and null, and is the String itself
\* otherwise; the text of a Boolean is true or false in lowercase, and the
\* text of Null is null.
C17_ScalarFormatting ==
  pc \in {"formatted", "relexed"} =>
    /\ val.t = "String" =>
         txt = IF \/ \E i \in 1..Len(val.s) : val.s[i] \in {" ", ":"}
                  \/ IsWord(val.s, <<"t", "r", "u", "e">>)
                  \/ IsWord(val.s, <<"f", "a", "l", "s", "e">>)
                  \/ IsWord(val.s, <<"n", "u", "l", "l">>)
               THEN <<"\"">> \o val.s \o <<"\"">>
               ELSE val.s
    /\ val = VBoolean(TRUE) => txt = <<"t", "r", "u", "e">>
    /\ val = VBoolean(FALSE) => txt = <<"f", "a", "l", "s", "e">>
    /\ val = VNull => txt = <<"n", "u", "l", "l">>

\* A String with a colon and no space has been formatted between quotes.
C17_Witness ==
  /\ pc = "formatted"
  /\ val = VString(<<"a", ":">>)
  /\ txt = <<"\"", "a", ":", "\"">>

\* C18: for every value, of any nesting of Maps and Lists, with a List or a
\* Map as a List item too, the serializer hands only scalars to
\* format_value: writing the value does not panic, and the written text
\* holds no mark of the unreachable branch.
C18_FormatOnlyScalars ==
  /\ pc # "panicked"
  /\ ~HasUnreachable(content)

\* A List with a List as an item and a Map as an item, neither empty, has
\* been written.
C18_Witness ==
  /\ pc = "written"
  /\ result.value.t = "List"
  /\ \E i \in 1..Len(result.value.l) :
       result.value.l[i].t = "List" /\ result.value.l[i].l # <<>>
  /\ \E i \in 1..Len(result.value.l) :
       result.value.l[i].t = "Map" /\ DOMAIN result.value.l[i].m # {}

\* A line whose first character after the whitespace is a dash and that
\* contains a colon.
DashColon(ln) ==
  /\ trim(ln) # <<>>
  /\ Head(trim(ln)) = "-"
  /\ \E i \in 1..Len(ln) : ln[i] = ":"

\* The position of the first colon of the text s.
FirstColon(s) == CHOOSE i \in 1..Len(s) : s[i] = ":" /\ \A j \in 1..(i - 1) : s[j] # ":"

\* C19: classification order.  A line that contains a colon is handled as
\* a key line, split at its first colon, also when its first character
\* after the whitespace is a dash: the iteration is the insert of the text
\* left of the colon, the dash included, as the key, with the lexed text
\* right of the colon as the value, and it leaves every other value of the
\* tree, so every List, as it is.
C19_ColonBeforeDash ==
  [][ (Consumed /\ DashColon(line'))
      => LET s     == trim(line')
             key   == trim(SubSeq(s, 1, FirstColon(s) - 1))
             value == trim(SubSeq(s, FirstColon(s) + 1, Len(s)))
         IN  /\ Head(key) = "-"
             /\ root' = insert_value(root, Dedent(stack, LineIndent(line')), key,
                                     IF value = <<>> THEN VList(<<>>)
                                     ELSE parse_value(value))
             /\ \A k \in DOMAIN root.m \ {key} :
                  k \in DOMAIN root'.m /\ root'.m[k] = root.m[k]
             /\ value # <<>> => stack' = Dedent(stack, LineIndent(line')) ]_vars

\* A key line that begins with a dash has been consumed under an open key:
\* its key is in the tree and the List of the open key is still empty.
C19_Witness ==
  /\ pc = "parsing"
  /\ DashColon(line)
  /\ <<"-", "a">> \in DOMAIN root.m
  /\ root.m[<<"-", "a">>] = VInteger(1)
  /\ stack # <<>>
  /\ stack[Len(stack)].key \in DOMAIN root.m
  /\ root.m[stack[Len(stack)].key] = VList(<<>>)

====
